---- MODULE Spec2Model ----
(***************************************************************************)
(* Model of the Life Context audio pipeline:                               *)
(*   - collectors/audio/chunking.py   make_chunks_with_overlap (segmenter) *)
(*   - processors/whisper/transcribe.py transcribe_audio_chunks (merge)    *)
(*   - collectors/audio/main.py       upload_audio (ingest), list_uploads, *)
(*                                    get_upload_details, health           *)
(*   - processors/whisper/main.py     process_upload, get_transcript,      *)
(*                                    get_status, health                   *)
(*                                                                         *)
(* The specifications share the variables:                                 *)
(*   SegSpec        runs the loop of make_chunks_with_overlap;             *)
(*   SegLiveSpec    the same, run to completion;                           *)
(*   SegInvalidSpec the same, on parameters outside the contract;          *)
(*   MergeSpec      runs the loop of transcribe_audio_chunks;              *)
(*   SeamSpec       the same, on the chunks the segmenter cut;             *)
(*   Spec           is the two services over the database and the blobs;   *)
(*   RunSpec        is process_upload on recordings of every content;      *)
(*   RaceSpec       is process_upload served by two workers;               *)
(*   PoolSpec       is the two services with their health checks;          *)
(*   ModelSpec      is transcribe.py in a process that loads the model.    *)
(*                                                                         *)
(* Units.  Audio positions are integer milliseconds, as in pydub.  Values  *)
(* the code holds in seconds (start_sec, segment start/end) are integer    *)
(* seconds here: chunk starts are always whole seconds (SegStartsWhole),   *)
(* and the engine stub and the recordings of Spec are drawn from whole     *)
(* seconds.  A duration in seconds (len(audio) / 1000.0) is kept as the    *)
(* pair <<whole seconds, thousandths>>.  Text is a sequence of             *)
(* one-character strings.                                                  *)
(***************************************************************************)
EXTENDS Integers, Sequences, FiniteSets, TLC

VARIABLES
    seg,                  \* make_chunks_with_overlap: the locals of one call
    mrg,                  \* transcribe_audio_chunks: the locals of one call
    blob_service_client,  \* whether AZURE_STORAGE_CONNECTION_STRING configured a client
    blobs,                \* Azure container "audio-files": blob path -> content
    audio_uploads,        \* table audio_uploads: id -> row
    audio_chunks,         \* table audio_chunks: set of rows
    transcripts,          \* table transcripts: per upload_id, its rows in insertion order
    next_upload_id,       \* the next fresh uuid4
    run,                  \* process_upload: the locals of the invocation in flight
    other,                \* process_upload: the locals of a second invocation, served
                          \* by another worker, while that worker is not the one stepping
    process_calls,        \* number of process_upload invocations that reached the database
    response,             \* what the handler of the latest request returned or raised
                          \* (none while process_upload is still running); for
                          \* process_upload also a record of the run: the chunks it handed
                          \* to the engine, the prompts it passed, the chunk that failed
    history,              \* per upload: the transcripts returned by process_upload and
                          \* those get_transcript serves after each completed run
    uploading,            \* upload_audio: the upload ids of the requests suspended in
                          \* "content = await file.read()"
    db_pool,              \* per service, the connections of its db_pool handed out by
                          \* getconn and not yet given back by putconn
    whisper_model         \* transcribe.py's global _model, the WhisperModel objects
                          \* constructed so far and what the latest call got

\* What the two services hold, but for the inference model.
stores == <<blob_service_client, blobs, audio_uploads, audio_chunks, transcripts,
            next_upload_id, run, other, process_calls, response, history,
            uploading, db_pool>>
sysvars == <<stores, whisper_model>>
vars == <<seg, mrg, sysvars>>

Min(a, b) == IF a < b THEN a ELSE b

Idle == [pc |-> "idle"]

(***************************************************************************)
(* Segmenter: collectors/audio/chunking.py                                 *)
(***************************************************************************)

\* Bounds of the inputs drawn for the segmenter.
DurationStepMs == 30000
MaxDurationSteps == 24
MaxSegChunkMinutes == 2

\* upload_audio's fixed arguments.
ChunkMinutes == 5
OverlapSeconds == 30

SegDurations ==
    { d \in { k * DurationStepMs + e : k \in 0..MaxDurationSteps, e \in {-1, 0, 1} } :
        d >= 0 }
SegChunkMinutes == (1..MaxSegChunkMinutes) \cup {ChunkMinutes}
SegOverlapSeconds == {0, 1, OverlapSeconds, 59}

\* chunk_ms = chunk_minutes * 60 * 1000
ChunkMs(chunk_minutes) == chunk_minutes * 60 * 1000
\* overlap_ms = overlap_seconds * 1000
OverlapMs(overlap_seconds) == overlap_seconds * 1000

ChunkEndUncapped(start_ms, chunk_ms, total_ms) == start_ms + chunk_ms
\* end_ms = min(start_ms + chunk_ms, total_ms)
ChunkEnd(start_ms, chunk_ms, total_ms) == Min(start_ms + chunk_ms, total_ms)

NextStartRestart(end_ms, overlap_ms) == 0
NextStartForward(end_ms, overlap_ms) == end_ms + overlap_ms
\* start_ms = end_ms - overlap_ms
NextStart(end_ms, overlap_ms) == end_ms - overlap_ms

\* start_sec = start_ms / 1000.0 (exact: see SegStartsWhole)
StartSec(start_ms) == start_ms \div 1000

\* The locals at entry of the while loop.
SegEntry(total_ms, chunk_minutes, overlap_seconds) ==
    [pc |-> "loop",
     total_ms |-> total_ms,
     chunk_minutes |-> chunk_minutes,
     overlap_seconds |-> overlap_seconds,
     start_ms |-> 0,
     chunks |-> <<>>]

\* One evaluation of the while condition and, if it holds, one iteration.
\* A chunk is (audio[start_ms:end_ms], start_sec): the slice is kept by its bounds.
SegIterate(s) ==
    IF s.start_ms < s.total_ms
    THEN LET end_ms == ChunkEnd(s.start_ms, ChunkMs(s.chunk_minutes), s.total_ms)
             chunk == [from_ms |-> s.start_ms, to_ms |-> end_ms,
                       start_sec |-> StartSec(s.start_ms)]
         IN  IF end_ms >= s.total_ms
             THEN [s EXCEPT !.chunks = Append(@, chunk), !.pc = "return"]
             ELSE [s EXCEPT !.chunks = Append(@, chunk),
                            !.start_ms = NextStart(end_ms, OverlapMs(s.overlap_seconds))]
    ELSE [s EXCEPT !.pc = "return"]

RECURSIVE SegRun(_)
SegRun(s) == IF s.pc = "return" THEN s.chunks ELSE SegRun(SegIterate(s))

\* The whole function, for callers (upload_audio).
make_chunks_with_overlap(total_ms, chunk_minutes, overlap_seconds) ==
    SegRun(SegEntry(total_ms, chunk_minutes, overlap_seconds))

\* len(chunk_audio)
ChunkLen(chunk) == chunk.to_ms - chunk.from_ms

\* ms / 1000.0: a float of seconds, kept exactly as <<whole seconds,
\* thousandths>> (60.5 is <<60, 500>>).
Seconds(ms) == <<ms \div 1000, ms % 1000>>
\* The milliseconds in such a number of seconds.
Millis(sec) == sec[1] * 1000 + sec[2]

(***************************************************************************)
(* Inference engine stub and transcribe.py                                 *)
(***************************************************************************)

\* Bounds of the engine stub's answers and of the merge inputs.
MaxSegmentsPerChunk == 2
MaxMergeChunks == 3

\* prompt_tail_chars: the default of transcribe_audio_chunks and the literal
\* of process_upload.
PromptTailChars == 300

\* The segments the stub can report for one chunk, by local start (seconds):
\* inside the overlap, exactly at its end, and past it.
SegmentPool ==
    << [start |-> OverlapSeconds - 20, end |-> OverlapSeconds - 10, text |-> <<"a", "b">>],
       [start |-> OverlapSeconds,      end |-> OverlapSeconds + 1,  text |-> <<"c">>],
       [start |-> OverlapSeconds + 1,  end |-> OverlapSeconds + 9,  text |-> <<"d", "e">>] >>

Languages == {"en", "es"}

\* Ordered by start, as the engine yields them.
EngineSegmentLists ==
    { [i \in 1..Len(f) |-> SegmentPool[f[i]]] :
        f \in { g \in UNION { [1..n -> 1..Len(SegmentPool)] : n \in 0..MaxSegmentsPerChunk } :
                  \A i \in 1..(Len(g) - 1) : g[i] < g[i + 1] } }

\* What model.transcribe yields for one chunk's audio: (segments_iter, info).
\* A chunk's audio is identified with the deterministic stub's answer for it.
EngineOutputs ==
    { [segments |-> l, language |-> lang,
       language_probability |-> IF lang = "en" THEN 99 ELSE 80] :
        l \in EngineSegmentLists, lang \in Languages }

RECURSIVE JoinText(_)
\* "".join(parts)
JoinText(parts) ==
    IF parts = <<>> THEN <<>> ELSE Head(parts) \o JoinText(Tail(parts))

TailCharsWhole(s, n) == s
\* s[-n:]
TailChars(s, n) ==
    IF n = 0 \/ Len(s) <= n THEN s ELSE SubSeq(s, Len(s) - n + 1, Len(s))

\* transcribe_chunk_file: the stub ignores initial_prompt; the segments become
\* dicts and chunk_text their joined text.
transcribe_chunk_file(audio, initial_prompt) ==
    [chunk_text |-> JoinText([i \in 1..Len(audio.segments) |-> audio.segments[i].text]),
     segments |-> [i \in 1..Len(audio.segments) |->
                     [start |-> audio.segments[i].start,
                      end |-> audio.segments[i].end,
                      text |-> audio.segments[i].text]],
     language |-> audio.language,
     language_probability |-> audio.language_probability]

SkipOverlapNever(idx, local_start, overlap_seconds) == FALSE
SkipOverlapInclusive(idx, local_start, overlap_seconds) ==
    idx > 0 /\ local_start <= overlap_seconds
\* if idx > 0 and local_start < overlap_seconds: continue
SkipOverlap(idx, local_start, overlap_seconds) ==
    idx > 0 /\ local_start < overlap_seconds

\* The segments of chunk idx that the merge keeps, in their order.
KeptSegments(idx, segments, overlap_seconds) ==
    SelectSeq(segments, LAMBDA sg : ~SkipOverlap(idx, sg.start, overlap_seconds))

\* The dict appended to all_segments for a kept segment.
GlobalSegment(idx, sg, language, lang_prob) ==
    [chunk_index |-> idx, start |-> sg.start, end |-> sg.end, text |-> sg.text,
     language |-> language, language_probability |-> lang_prob]

\* Update tail prompt for next chunk.
NextTail(prev_tail, chunk_text_merge, chunk_text, prompt_tail_chars) ==
    IF chunk_text_merge # <<>> THEN TailChars(chunk_text_merge, prompt_tail_chars)
    ELSE IF chunk_text # <<>> THEN TailChars(chunk_text, prompt_tail_chars)
    ELSE prev_tail

\* The locals at entry of the for loop.  prompts is a record of the
\* initial_prompt handed to each transcribe_chunk_file call (<<>> for None).
MergeEntry(chunk_paths, overlap_seconds, prompt_tail_chars) ==
    [pc |-> "loop",
     chunk_paths |-> chunk_paths,
     overlap_seconds |-> overlap_seconds,
     prompt_tail_chars |-> prompt_tail_chars,
     idx |-> 0,
     prev_tail |-> <<>>,
     full_text_parts |-> <<>>,
     all_segments |-> <<>>,
     language_per_chunk |-> <<>>,
     prompts |-> <<>>,
     full_text |-> <<>>]

\* One iteration of the for loop, or the return once the paths are exhausted.
MergeIterate(m) ==
    IF m.idx < Len(m.chunk_paths)
    THEN LET r == transcribe_chunk_file(m.chunk_paths[m.idx + 1], m.prev_tail)
             kept == KeptSegments(m.idx, r.segments, m.overlap_seconds)
             chunk_text_merge == JoinText([i \in 1..Len(kept) |-> kept[i].text])
         IN  [m EXCEPT
                !.prompts = Append(@, m.prev_tail),
                !.language_per_chunk =
                    Append(@, [chunk_index |-> m.idx, language |-> r.language,
                               language_probability |-> r.language_probability]),
                !.all_segments =
                    @ \o [i \in 1..Len(kept) |->
                            GlobalSegment(m.idx, kept[i], r.language, r.language_probability)],
                !.full_text_parts = Append(@, chunk_text_merge),
                !.prev_tail = NextTail(@, chunk_text_merge, r.chunk_text, m.prompt_tail_chars),
                !.idx = @ + 1]
    ELSE [m EXCEPT !.full_text = JoinText(m.full_text_parts), !.pc = "return"]

RECURSIVE MergeRun(_)
MergeRun(m) == IF m.pc = "return" THEN m ELSE MergeRun(MergeIterate(m))

\* The whole function: (full_text, all_segments, language_per_chunk).
transcribe_audio_chunks(chunk_paths, overlap_seconds, prompt_tail_chars) ==
    LET m == MergeRun(MergeEntry(chunk_paths, overlap_seconds, prompt_tail_chars))
    IN  [full_text |-> m.full_text, all_segments |-> m.all_segments,
         language_per_chunk |-> m.language_per_chunk]

(***************************************************************************)
(* The inference model: transcribe.py's _model and init_whisper_model      *)
(***************************************************************************)

\* _model = None at import.  model: 0 for None, else the number of the
\* WhisperModel object _model refers to; constructed: the objects constructed
\* so far; last: the object the latest call of init_whisper_model returned
\* (0 before any call and when the call raised); used: the object whose
\* transcribe() the latest call of transcribe_chunk_file invoked (0 before any
\* call and when it got no model).
ModelAtImport == [model |-> 0, constructed |-> 0, last |-> 0, used |-> 0]

ModelLoadedNever(model) == FALSE
\* if _model is not None: return _model
ModelLoaded(model) == model # 0

\* init_whisper_model(): the global after the call and what it returned.
\* ok: whether WhisperModel(...) constructs, if it is called.
init_whisper_model(w, ok) ==
    IF ModelLoaded(w.model) THEN [w EXCEPT !.last = w.model]
    ELSE IF ok THEN [w EXCEPT !.constructed = @ + 1,
                              !.model = w.constructed + 1,
                              !.last = w.constructed + 1]
    ELSE [w EXCEPT !.last = 0]

\* transcribe_chunk_file's use of the model: model = init_whisper_model(),
\* then model.transcribe(...).
transcribe_model(w, ok) ==
    LET v == init_whisper_model(w, ok)
    IN  [v EXCEPT !.used = v.last]

\* The whisper service once lifespan has run: init_whisper_model() returned.
ModelAtStartup == init_whisper_model(ModelAtImport, TRUE)

(***************************************************************************)
(* Database connections: get_db_connection / release_db_connection in both *)
(* services                                                                *)
(***************************************************************************)

\* psycopg2.pool.SimpleConnectionPool(1, 10, db_url): maxconn.
PoolMaxConn == 10

Services == {"audio", "whisper"}

\* After lifespan's startup: its own connection is back in the pool.
PoolAtStartup == [s \in Services |-> 0]

\* db_pool.getconn() raises PoolError when maxconn connections are out.
PoolExhausted(used) == used >= PoolMaxConn

\* get_db_connection()
getconn(pool, service) == [pool EXCEPT ![service] = @ + 1]
\* release_db_connection(conn)
putconn(pool, service) == [pool EXCEPT ![service] = @ - 1]

(***************************************************************************)
(* Shared stores and collectors/audio/main.py                              *)
(***************************************************************************)

\* Bounds of the services' inputs.
MaxUploads == 2
MaxProcessCalls == 3

UploadIds == 1..MaxUploads
\* Recording lengths in seconds: empty (no chunk) and three chunks.
RecordingSeconds == { 0, 2 * ChunkMinutes * 60 }

\* The stub's answer for a chunk whose segments are SegmentPool[f[1]], ...
Audio(f, lang) ==
    [segments |-> [i \in 1..Len(f) |-> SegmentPool[f[i]]],
     language |-> lang,
     language_probability |-> IF lang = "en" THEN 99 ELSE 80]

Silence == Audio(<<>>, "en")

\* The recordings' contents: what the stub hears in chunk 0, 1, 2, ... (the
\* pattern repeats).  Speech, silence, speech in another language; or silence
\* first, then speech in one language.
RecordingContents ==
    { << Audio(<<1, 3>>, "es"), Silence, Audio(<<1>>, "en") >>,
      << Silence, Audio(<<1>>, "en"), Audio(<<1, 3>>, "en") >> }

\* The audio of chunk idx of a recording with the given content.
ChunkAudio(content, idx) == content[(idx % Len(content)) + 1]

\* blob_path = f"chunks/{dt_prefix}_{upload_id}_chunk_{idx}.wav"
ChunkBlobPath(upload_id, idx) == <<"chunks", upload_id, idx>>
\* original_blob_path = f"original/{dt_prefix}_{upload_id}.wav"
OriginalBlobPath(upload_id) == <<"original", upload_id>>

NoResponse == [op |-> "none", code |-> 0]

ChunkRecordsFromOne(upload_id, chunks) ==
    { [upload_id |-> upload_id,
       chunk_index |-> i,
       start_time_sec |-> chunks[i].start_sec,
       duration_sec |-> Seconds(ChunkLen(chunks[i])),
       blob_path |-> ChunkBlobPath(upload_id, i)] : i \in 1..Len(chunks) }
\* chunk_records, as the rows inserted into audio_chunks.
ChunkRecords(upload_id, chunks) ==
    { [upload_id |-> upload_id,
       chunk_index |-> i - 1,
       start_time_sec |-> chunks[i].start_sec,
       duration_sec |-> Seconds(ChunkLen(chunks[i])),
       blob_path |-> ChunkBlobPath(upload_id, i - 1)] : i \in 1..Len(chunks) }

\* The blobs upload_audio writes: the original (best effort) and every chunk
\* whose upload_blob did not raise; nothing when no client is configured.
\* failed_chunk: the position (1..n) of the chunk whose upload raises, 0 for none.
UploadedBlobs(upload_id, total_ms, n, content, orig_ok, failed_chunk) ==
    IF ~blob_service_client THEN <<>>
    ELSE [p \in ({ OriginalBlobPath(upload_id) : x \in { y \in {1} : orig_ok } }
                 \cup { ChunkBlobPath(upload_id, i - 1) : i \in (1..n) \ {failed_chunk} }) |->
            IF p = OriginalBlobPath(upload_id)
            THEN [original_ms |-> total_ms]
            ELSE ChunkAudio(content, p[3])]

MergeFresh(f, g) == g
\* f @@ g without a clash of keys (blob paths are fresh per upload id).
Merge(f, g) ==
    [k \in (DOMAIN f) \cup (DOMAIN g) |-> IF k \in DOMAIN g THEN g[k] ELSE f[k]]

\* POST /audio/upload/{member_id} with a file that is not .wav: 400.
upload_rejected ==
    /\ response' = [op |-> "upload", code |-> 400]
    /\ UNCHANGED <<blob_service_client, blobs, audio_uploads, audio_chunks, transcripts,
                   next_upload_id, run, process_calls, history, uploading, db_pool,
                   whisper_model>>

\* POST /audio/upload/{member_id} up to "content = await file.read()": the
\* upload id is drawn (uuid4), then the request is suspended while the body is
\* read and other requests are served.
upload_begin ==
    /\ next_upload_id <= MaxUploads
    /\ next_upload_id' = next_upload_id + 1
    /\ uploading' = uploading \cup {next_upload_id}
    /\ UNCHANGED <<blob_service_client, blobs, audio_uploads, audio_chunks, transcripts,
                   run, process_calls, response, history, db_pool, whisper_model>>

StoredOnlyWithOriginal(orig_ok, db_ok) == orig_ok /\ db_ok
\* Whether the request gets to commit its rows: the failure of the original's
\* upload_blob is caught and printed, only the database decides.
Stored(orig_ok, db_ok) == db_ok

\* POST /audio/upload/{member_id} from the end of the read to the answer, which
\* nothing interrupts.  total_s: the recording's length; content: what it
\* holds; orig_ok, failed_chunk: which upload_blob calls succeed; db_ok:
\* whether the database transaction succeeds.  The connection is asked for
\* after the blobs are written, and given back in the finally.
upload_audio(upload_id, total_s, content, orig_ok, failed_chunk, db_ok) ==
    LET total_ms == total_s * 1000
        chunks == make_chunks_with_overlap(total_ms, ChunkMinutes, OverlapSeconds)
        connected == ~PoolExhausted(db_pool["audio"])
    IN  /\ upload_id \in uploading
        /\ uploading' = uploading \ {upload_id}
        /\ blobs' = Merge(blobs, UploadedBlobs(upload_id, total_ms, Len(chunks), content,
                                               orig_ok, failed_chunk))
        /\ db_pool' = IF connected THEN putconn(getconn(db_pool, "audio"), "audio")
                      ELSE db_pool
        /\ IF connected /\ Stored(orig_ok, db_ok)
           THEN /\ audio_uploads' =
                     Merge(audio_uploads,
                           [u \in {upload_id} |->
                              [duration_seconds |-> Seconds(total_ms),
                               uploaded_at |-> Cardinality(DOMAIN audio_uploads) + 1,
                               total_chunks |-> Len(chunks),
                               status |-> "chunked"]])
                /\ audio_chunks' = audio_chunks \cup ChunkRecords(upload_id, chunks)
                /\ response' = [op |-> "upload", code |-> 200, upload_id |-> upload_id,
                                total_chunks |-> Len(chunks)]
           ELSE /\ UNCHANGED <<audio_uploads, audio_chunks>>
                /\ response' = [op |-> "upload", code |-> 500]
        /\ UNCHANGED <<blob_service_client, transcripts, next_upload_id, run,
                       process_calls, history, whisper_model>>

RECURSIVE NewestFirst(_, _)
\* ORDER BY uploaded_at DESC over the rows of a set of upload ids.
NewestFirst(table, ids) ==
    IF ids = {} THEN <<>>
    ELSE LET m == CHOOSE i \in ids : \A j \in ids : table[j].uploaded_at <= table[i].uploaded_at
         IN  <<m>> \o NewestFirst(table, ids \ {m})

\* GET /audio/uploads/{member_id}: the member's uploads (one member here).
list_uploads ==
    /\ IF PoolExhausted(db_pool["audio"])
       THEN /\ response' = [op |-> "list", code |-> 500]
            /\ UNCHANGED db_pool
       ELSE /\ db_pool' = putconn(getconn(db_pool, "audio"), "audio")
            /\ LET ids == NewestFirst(audio_uploads, DOMAIN audio_uploads)
               IN  response' =
                     [op |-> "list", code |-> 200, count |-> Len(ids),
                      uploads |-> [i \in 1..Len(ids) |->
                                     [upload_id |-> ids[i],
                                      duration_seconds |-> audio_uploads[ids[i]].duration_seconds,
                                      total_chunks |-> audio_uploads[ids[i]].total_chunks,
                                      status |-> audio_uploads[ids[i]].status]]]
    /\ UNCHANGED <<blob_service_client, blobs, audio_uploads, audio_chunks, transcripts,
                   next_upload_id, run, process_calls, history, uploading, whisper_model>>

\* GET /audio/upload/{upload_id}: the upload row and its chunk rows.
get_upload_details(upload_id) ==
    /\ IF PoolExhausted(db_pool["audio"])
       THEN /\ response' = [op |-> "details", code |-> 500, upload_id |-> upload_id]
            /\ UNCHANGED db_pool
       ELSE /\ db_pool' = putconn(getconn(db_pool, "audio"), "audio")
            /\ response' =
                 IF upload_id \notin DOMAIN audio_uploads
                 THEN [op |-> "details", code |-> 404, upload_id |-> upload_id]
                 ELSE [op |-> "details", code |-> 200, upload_id |-> upload_id,
                       duration_seconds |-> audio_uploads[upload_id].duration_seconds,
                       total_chunks |-> audio_uploads[upload_id].total_chunks,
                       status |-> audio_uploads[upload_id].status,
                       chunks |-> LET rows == { r \in audio_chunks : r.upload_id = upload_id }
                                      n == Cardinality(rows)
                                  IN  [i \in 1..n |->
                                         CHOOSE r \in rows : r.chunk_index = i - 1]]
    /\ UNCHANGED <<blob_service_client, blobs, audio_uploads, audio_chunks, transcripts,
                   next_upload_id, run, process_calls, history, uploading, whisper_model>>

\* GET / of either service.  ok: whether conn.cursor(), SELECT 1 and
\* cursor.close() go through.  release_db_connection is the last statement of
\* the try body, and "except Exception" answers "unhealthy" without it; the
\* same except catches the PoolError of get_db_connection.
health(service, ok) ==
    /\ IF PoolExhausted(db_pool[service])
       THEN /\ response' = [op |-> "health", code |-> 200, service |-> service,
                            status |-> "unhealthy"]
            /\ UNCHANGED db_pool
       ELSE IF ok
       THEN /\ response' = [op |-> "health", code |-> 200, service |-> service,
                            status |-> "healthy"]
            /\ db_pool' = putconn(getconn(db_pool, service), service)
       ELSE /\ response' = [op |-> "health", code |-> 200, service |-> service,
                            status |-> "unhealthy"]
            /\ db_pool' = getconn(db_pool, service)
    /\ UNCHANGED <<blob_service_client, blobs, audio_uploads, audio_chunks, transcripts,
                   next_upload_id, run, process_calls, history, uploading, whisper_model>>

\* At most one of the request's external calls fails.
OneFault(orig_ok, failed_chunk, db_ok) ==
    \/ orig_ok /\ db_ok
    \/ orig_ok /\ failed_chunk = 0
    \/ db_ok /\ failed_chunk = 0

\* The uploads with an id after the first are other recordings: whole ones,
\* stored without a fault.
PlainUpload(total_s, content, orig_ok, failed_chunk, db_ok) ==
    /\ orig_ok /\ db_ok /\ failed_chunk = 0
    /\ total_s > 0
    /\ content = << Audio(<<1, 3>>, "es"), Silence, Audio(<<1>>, "en") >>

\* No process_upload is running.  process_upload writes nothing before the
\* commit that ends it, and no other request writes what it reads after its
\* first two SELECTs, so a request served while it runs answers and leaves in
\* the stores what it would have right before the run: the other requests are
\* drawn between runs only.
Quiet == run.pc = "idle"

UploadRejected == Quiet /\ upload_rejected

UploadBegin == Quiet /\ upload_begin
\* The same for the first recording only.
FirstUploadBegin == next_upload_id = 1 /\ UploadBegin

UploadAudio ==
    Quiet /\
    \E upload_id \in uploading, total_s \in RecordingSeconds,
       content \in RecordingContents, orig_ok \in BOOLEAN, db_ok \in BOOLEAN :
       LET n == Len(make_chunks_with_overlap(total_s * 1000, ChunkMinutes, OverlapSeconds))
       IN  \E failed_chunk \in 0..n :
              /\ OneFault(orig_ok, failed_chunk, db_ok)
              /\ upload_id > 1 => PlainUpload(total_s, content, orig_ok, failed_chunk, db_ok)
              /\ upload_audio(upload_id, total_s, content, orig_ok, failed_chunk, db_ok)

\* The same on plain recordings only.
PlainUploadAudio ==
    Quiet /\
    \E upload_id \in uploading, total_s \in RecordingSeconds,
       content \in RecordingContents :
       /\ PlainUpload(total_s, content, TRUE, 0, TRUE)
       /\ upload_audio(upload_id, total_s, content, TRUE, 0, TRUE)

Health == Quiet /\ \E service \in Services, ok \in BOOLEAN : health(service, ok)

(***************************************************************************)
(* processors/whisper/main.py                                              *)
(***************************************************************************)

RECURSIVE SortByIndex(_)
\* ORDER BY chunk_index over a set of rows.
SortByIndex(rows) ==
    IF rows = {} THEN <<>>
    ELSE LET m == CHOOSE r \in rows : \A q \in rows : r.chunk_index <= q.chunk_index
         IN  <<m>> \o SortByIndex(rows \ {m})

SelectChunksDescending(upload_id) ==
    LET rows == SortByIndex({ r \in audio_chunks : r.upload_id = upload_id })
    IN  [i \in 1..Len(rows) |-> rows[Len(rows) + 1 - i]]
\* SELECT ... FROM audio_chunks WHERE upload_id = %s ORDER BY chunk_index
SelectChunks(upload_id) ==
    SortByIndex({ r \in audio_chunks : r.upload_id = upload_id })

RECURSIVE OrderPositions(_, _)
\* Positions ps of the table's rows ordered by chunk_index, then by insertion.
OrderPositions(table, ps) ==
    IF ps = {} THEN <<>>
    ELSE LET m == CHOOSE p \in ps : \A q \in ps :
                     \/ table[p].chunk_index < table[q].chunk_index
                     \/ /\ table[p].chunk_index = table[q].chunk_index
                        /\ p <= q
         IN  <<m>> \o OrderPositions(table, ps \ {m})

\* SELECT ... FROM transcripts WHERE upload_id = %s ORDER BY chunk_index.
\* Rows of equal chunk_index come in insertion order; they are equal anyway
\* (TranscriptRowsAgree), so the order the database picks does not show.
SelectTranscripts(table, upload_id) ==
    LET rows == table[upload_id]
        ord == OrderPositions(rows, 1..Len(rows))
    IN  [i \in 1..Len(ord) |-> rows[ord[i]]]

\* INSERT INTO transcripts, row after row.
InsertTranscripts(table, upload_id, rows) ==
    [table EXCEPT ![upload_id] = @ \o rows]

RunIdle ==
    [pc |-> "idle", upload_id |-> 0, chunks |-> <<>>, pos |-> 0, results |-> <<>>,
     prev_tail |-> <<>>, prompts |-> <<>>, transcribed |-> <<>>,
     error |-> "none", failed_index |-> -1, aborted |-> FALSE, pending |-> <<>>]

\* The row INSERTed into transcripts for one result.
TranscriptRow(upload_id, result) ==
    [upload_id |-> upload_id,
     chunk_index |-> result.chunk_index,
     text |-> result.text,
     language |-> result.language,
     language_probability |-> result.language_probability,
     segments |-> result.segments]

ProcessTailReset(prev_tail, chunk_text) == TailChars(chunk_text, PromptTailChars)
\* if chunk_text: prev_tail = chunk_text[-300:]
ProcessTail(prev_tail, chunk_text) ==
    IF chunk_text # <<>> THEN TailChars(chunk_text, PromptTailChars) ELSE prev_tail

\* POST /whisper/process/{upload_id} without a blob client: 500 before any work.
process_not_configured(upload_id) ==
    /\ run.pc = "idle"
    /\ ~blob_service_client
    /\ response' = [op |-> "process", code |-> 500, upload_id |-> upload_id,
                    error |-> "not_configured"]
    /\ UNCHANGED <<blob_service_client, blobs, audio_uploads, audio_chunks, transcripts,
                   next_upload_id, run, process_calls, history, uploading, db_pool,
                   whisper_model>>

\* process_upload up to the loop: conn = get_db_connection(), whose PoolError
\* nothing catches; then, inside the try, read the upload row and its chunks.
process_begin(upload_id) ==
    /\ run.pc = "idle"
    /\ blob_service_client
    /\ process_calls < MaxProcessCalls
    /\ IF PoolExhausted(db_pool["whisper"])
       THEN /\ response' = [op |-> "process", code |-> 500, upload_id |-> upload_id,
                            error |-> "pool_error"]
            /\ UNCHANGED <<run, process_calls, db_pool>>
       ELSE /\ db_pool' = getconn(db_pool, "whisper")
            /\ process_calls' = process_calls + 1
            /\ LET chunks == SelectChunks(upload_id)
                   start == [RunIdle EXCEPT !.upload_id = upload_id]
               IN  run' = IF upload_id \notin DOMAIN audio_uploads
                          THEN [start EXCEPT !.pc = "except", !.error = "not_found"]
                          ELSE IF chunks = <<>>
                          THEN [start EXCEPT !.pc = "except", !.error = "no_chunks"]
                          ELSE [start EXCEPT !.pc = "loop", !.chunks = chunks]
            /\ response' = NoResponse
    /\ UNCHANGED <<blob_service_client, blobs, audio_uploads, audio_chunks, transcripts,
                   next_upload_id, history, uploading, whisper_model>>

AfterChunkBreak(pos, n) == "store"
\* After a chunk: the next one, or the store once all are done.
AfterChunk(pos, n) == IF pos < n THEN "loop" ELSE "store"

ChunkFailureSkipped(r, kind, row) ==
    [r EXCEPT !.error = kind, !.failed_index = row.chunk_index,
              !.pos = @ + 1, !.pc = AfterChunk(r.pos + 1, Len(r.chunks))]
\* An exception in the loop body leaves the loop for "except Exception".
ChunkFailure(r, kind, row) ==
    [r EXCEPT !.pc = "except", !.error = kind, !.failed_index = row.chunk_index]

\* One iteration of "for chunk_id, chunk_idx, blob_path, start_time in chunks".
\* fault: what goes wrong in this iteration, if anything.  transcribe_chunk_file
\* gets its model from init_whisper_model() before it calls the engine.
process_chunk(fault) ==
    /\ run.pc = "loop"
    /\ LET row == run.chunks[run.pos + 1]
       IN  IF fault = "download" \/ row.blob_path \notin DOMAIN blobs
           THEN /\ run' = ChunkFailure(run, "download", row)
                /\ UNCHANGED whisper_model
           ELSE IF fault = "transcribe"
           THEN /\ run' = ChunkFailure([run EXCEPT
                                          !.prompts = Append(@, run.prev_tail),
                                          !.transcribed = Append(@, row.chunk_index)],
                                       "transcribe", row)
                /\ whisper_model' = transcribe_model(whisper_model, TRUE)
           ELSE LET r == transcribe_chunk_file(blobs[row.blob_path], run.prev_tail)
                IN  /\ whisper_model' = transcribe_model(whisper_model, TRUE)
                    /\ run' = [run EXCEPT
                              !.prompts = Append(@, run.prev_tail),
                              !.transcribed = Append(@, row.chunk_index),
                              !.prev_tail = ProcessTail(@, r.chunk_text),
                              !.results = Append(@, [chunk_index |-> row.chunk_index,
                                                     text |-> r.chunk_text,
                                                     language |-> r.language,
                                                     language_probability |->
                                                         r.language_probability,
                                                     segments |-> r.segments]),
                              !.pos = @ + 1,
                              !.pc = AfterChunk(run.pos + 1, Len(run.chunks))]
    /\ UNCHANGED <<blob_service_client, blobs, audio_uploads, audio_chunks, transcripts,
                   next_upload_id, process_calls, response, history, uploading, db_pool>>

\* list(set(...)): the list has each value of the set once, in an order the
\* code does not fix; a list is kept as the number of times each value occurs
\* in it (LanguageListRaw: the list itself, without set()).
LanguageListRaw(langs) ==
    [l \in { langs[i] : i \in 1..Len(langs) } |->
        Cardinality({ i \in 1..Len(langs) : langs[i] = l })]
LanguageList(langs) == [l \in { langs[i] : i \in 1..Len(langs) } |-> 1]

\* What get_transcript returns for a completed upload, given the table.
TranscriptResult(table, upload_id) ==
    LET rows == SelectTranscripts(table, upload_id)
    IN  [full_transcript |-> JoinText([i \in 1..Len(rows) |-> rows[i].text]),
         total_chunks |-> Len(rows),
         segments |-> JoinText([i \in 1..Len(rows) |-> rows[i].segments]),
         languages |-> LanguageList([i \in 1..Len(rows) |-> rows[i].language])]

\* The handler's return value.
ProcessResult(upload_id, results) ==
    [full_transcript |-> JoinText([i \in 1..Len(results) |-> results[i].text]),
     languages |-> LanguageList([i \in 1..Len(results) |-> results[i].language]),
     chunks_processed |-> Len(results)]

\* "Store results in database" to the return: every INSERT, the UPDATE to
\* 'completed' and the commit, which makes them visible together; the finally
\* gives the connection back.
process_store ==
    /\ run.pc = "store"
    /\ LET u == run.upload_id
           rows == [i \in 1..Len(run.results) |-> TranscriptRow(u, run.results[i])]
           result == ProcessResult(u, run.results)
       IN  /\ transcripts' = InsertTranscripts(transcripts, u, rows)
           /\ audio_uploads' = [audio_uploads EXCEPT ![u].status = "completed"]
           /\ response' = [op |-> "process", code |-> 200, upload_id |-> u,
                           status |-> "completed", result |-> result,
                           transcribed |-> run.transcribed, prompts |-> run.prompts]
           /\ history' = [history EXCEPT ![u].returned = @ \cup {result},
                                          ![u].stored =
                                              @ \cup {TranscriptResult(InsertTranscripts(transcripts, u, rows), u)}]
    /\ run' = RunIdle
    /\ db_pool' = putconn(db_pool, "whisper")
    /\ UNCHANGED <<blob_service_client, blobs, audio_chunks, next_upload_id, process_calls,
                   uploading, whisper_model>>

\* The store fails.  A statement the server rejects (or a lost connection)
\* leaves the transaction aborted; an error raised on the client while binding
\* INSERT number k leaves the first k-1 INSERTs pending in an open transaction.
process_store_fails(server, k) ==
    /\ run.pc = "store"
    /\ run' = [run EXCEPT
                 !.pc = "except",
                 !.error = IF server THEN "db_error" ELSE "client_error",
                 !.aborted = server,
                 !.pending = IF server THEN <<>>
                             ELSE [i \in 1..(k - 1) |->
                                     TranscriptRow(run.upload_id, run.results[i])]]
    /\ UNCHANGED <<blob_service_client, blobs, audio_uploads, audio_chunks, transcripts,
                   next_upload_id, process_calls, response, history, uploading, db_pool,
                   whisper_model>>

\* "except Exception": UPDATE ... SET status = 'failed' and commit, every error
\* of which is swallowed; then HTTP 500; then the connection goes back to the
\* pool, which rolls back what was not committed.  In an aborted transaction the
\* UPDATE raises and nothing is written; in an open one the commit also makes
\* the pending INSERTs durable.
process_except ==
    /\ run.pc = "except"
    /\ LET u == run.upload_id
       IN  IF run.aborted
           THEN UNCHANGED <<audio_uploads, transcripts>>
           ELSE /\ audio_uploads' =
                     [v \in DOMAIN audio_uploads |->
                        IF v = u THEN [audio_uploads[v] EXCEPT !.status = "failed"]
                        ELSE audio_uploads[v]]
                /\ transcripts' = IF run.pending = <<>> THEN transcripts
                                   ELSE InsertTranscripts(transcripts, u, run.pending)
    /\ response' = [op |-> "process", code |-> 500, upload_id |-> run.upload_id,
                    error |-> run.error, failed_index |-> run.failed_index,
                    transcribed |-> run.transcribed, prompts |-> run.prompts]
    /\ run' = RunIdle
    /\ db_pool' = putconn(db_pool, "whisper")
    /\ UNCHANGED <<blob_service_client, blobs, audio_chunks, next_upload_id,
                   process_calls, history, uploading, whisper_model>>

NotReadyNever(status) == FALSE
\* if status != 'completed'
NotReady(status) == status # "completed"

\* GET /whisper/transcript/{upload_id}
get_transcript(upload_id) ==
    /\ IF PoolExhausted(db_pool["whisper"])
       THEN /\ response' = [op |-> "transcript", code |-> 500, upload_id |-> upload_id]
            /\ UNCHANGED db_pool
       ELSE /\ db_pool' = putconn(getconn(db_pool, "whisper"), "whisper")
            /\ IF upload_id \notin DOMAIN audio_uploads
               THEN response' = [op |-> "transcript", code |-> 404, upload_id |-> upload_id]
               ELSE IF NotReady(audio_uploads[upload_id].status)
               THEN response' = [op |-> "transcript", code |-> 200, upload_id |-> upload_id,
                                 status |-> audio_uploads[upload_id].status]
               ELSE response' = [op |-> "transcript", code |-> 200, upload_id |-> upload_id,
                                 status |-> "completed",
                                 result |-> TranscriptResult(transcripts, upload_id)]
    /\ UNCHANGED <<blob_service_client, blobs, audio_uploads, audio_chunks, transcripts,
                   next_upload_id, run, process_calls, history, uploading, whisper_model>>

\* GET /whisper/status/{upload_id}
get_status(upload_id) ==
    /\ IF PoolExhausted(db_pool["whisper"])
       THEN /\ response' = [op |-> "status", code |-> 500, upload_id |-> upload_id]
            /\ UNCHANGED db_pool
       ELSE /\ db_pool' = putconn(getconn(db_pool, "whisper"), "whisper")
            /\ response' =
                 IF upload_id \notin DOMAIN audio_uploads
                 THEN [op |-> "status", code |-> 404, upload_id |-> upload_id]
                 ELSE [op |-> "status", code |-> 200, upload_id |-> upload_id,
                       status |-> audio_uploads[upload_id].status,
                       total_chunks |-> audio_uploads[upload_id].total_chunks]
    /\ UNCHANGED <<blob_service_client, blobs, audio_uploads, audio_chunks, transcripts,
                   next_upload_id, run, process_calls, history, uploading, whisper_model>>

ProcessNotConfigured == \E u \in UploadIds : process_not_configured(u)
ProcessBegin == \E u \in UploadIds : process_begin(u)
ProcessChunk == \E fault \in {"none", "download", "transcribe"} : process_chunk(fault)
ProcessStore == process_store
\* The client-side error is drawn at the last INSERT.
ProcessStoreFails ==
    \E server \in BOOLEAN : process_store_fails(server, Len(run.results))
ProcessExcept == process_except
GetTranscript == Quiet /\ \E u \in UploadIds : get_transcript(u)
GetStatus == Quiet /\ \E u \in UploadIds : get_status(u)
ListUploads == Quiet /\ list_uploads
GetUploadDetails == Quiet /\ \E u \in UploadIds : get_upload_details(u)

(***************************************************************************)
(* Specifications                                                          *)
(***************************************************************************)

\* The stores of the services before any request; also the idle value of
\* these variables under SegSpec and MergeSpec.
SysInit ==
    /\ blobs = <<>>
    /\ audio_uploads = <<>>
    /\ audio_chunks = {}
    /\ transcripts = [u \in UploadIds |-> <<>>]
    /\ next_upload_id = 1
    /\ run = RunIdle
    /\ other = RunIdle
    /\ process_calls = 0
    /\ response = NoResponse
    /\ history = [u \in UploadIds |-> [returned |-> {}, stored |-> {}]]
    /\ uploading = {}
    /\ db_pool = PoolAtStartup

\* Both services after their lifespan startup.
Init ==
    /\ seg = Idle
    /\ mrg = Idle
    /\ blob_service_client \in BOOLEAN
    /\ SysInit
    /\ whisper_model = ModelAtStartup

Next ==
    \/ (UploadRejected /\ UNCHANGED <<seg, mrg, other>>)
    \/ (UploadBegin /\ UNCHANGED <<seg, mrg, other>>)
    \/ (UploadAudio /\ UNCHANGED <<seg, mrg, other>>)
    \/ (ProcessNotConfigured /\ UNCHANGED <<seg, mrg, other>>)
    \/ (ProcessBegin /\ UNCHANGED <<seg, mrg, other>>)
    \/ (ProcessChunk /\ UNCHANGED <<seg, mrg, other>>)
    \/ (ProcessStore /\ UNCHANGED <<seg, mrg, other>>)
    \/ (ProcessStoreFails /\ UNCHANGED <<seg, mrg, other>>)
    \/ (ProcessExcept /\ UNCHANGED <<seg, mrg, other>>)
    \/ (GetTranscript /\ UNCHANGED <<seg, mrg, other>>)
    \/ (GetStatus /\ UNCHANGED <<seg, mrg, other>>)
    \/ (ListUploads /\ UNCHANGED <<seg, mrg, other>>)
    \/ (GetUploadDetails /\ UNCHANGED <<seg, mrg, other>>)

Spec == Init /\ [][Next]_vars

\* The service with two workers (processes or threads) serving process_upload:
\* each has its own locals and its own database connection from the pool, and
\* the code takes no lock and checks no status.  Yield hands the processor to
\* the other worker.
Yield ==
    /\ run # other
    /\ run' = other
    /\ other' = run
    /\ UNCHANGED <<seg, mrg, blob_service_client, blobs, audio_uploads, audio_chunks,
                   transcripts, next_upload_id, process_calls, response, history,
                   uploading, db_pool, whisper_model>>

RaceNext ==
    \/ (UploadBegin /\ UNCHANGED <<seg, mrg, other>>)
    \/ (UploadAudio /\ UNCHANGED <<seg, mrg, other>>)
    \/ (ProcessBegin /\ UNCHANGED <<seg, mrg, other>>)
    \/ (ProcessChunk /\ UNCHANGED <<seg, mrg, other>>)
    \/ (ProcessStore /\ UNCHANGED <<seg, mrg, other>>)
    \/ (ProcessExcept /\ UNCHANGED <<seg, mrg, other>>)
    \/ (GetTranscript /\ UNCHANGED <<seg, mrg, other>>)
    \/ Yield

RaceSpec == Init /\ [][RaceNext]_vars

\* Both services with their health checks, on one plain recording.
PoolNext ==
    \/ (Health /\ UNCHANGED <<seg, mrg, other>>)
    \/ (UploadRejected /\ UNCHANGED <<seg, mrg, other>>)
    \/ (FirstUploadBegin /\ UNCHANGED <<seg, mrg, other>>)
    \/ (PlainUploadAudio /\ UNCHANGED <<seg, mrg, other>>)
    \/ (ListUploads /\ UNCHANGED <<seg, mrg, other>>)
    \/ (GetUploadDetails /\ UNCHANGED <<seg, mrg, other>>)
    \/ (ProcessNotConfigured /\ UNCHANGED <<seg, mrg, other>>)
    \/ (ProcessBegin /\ UNCHANGED <<seg, mrg, other>>)
    \/ (ProcessChunk /\ UNCHANGED <<seg, mrg, other>>)
    \/ (ProcessStore /\ UNCHANGED <<seg, mrg, other>>)
    \/ (ProcessExcept /\ UNCHANGED <<seg, mrg, other>>)
    \/ (GetTranscript /\ UNCHANGED <<seg, mrg, other>>)
    \/ (GetStatus /\ UNCHANGED <<seg, mrg, other>>)

PoolSpec == Init /\ [][PoolNext]_vars

\* Process runs on recordings of every content: one recording of three chunks
\* is ingested without a fault, each chunk holding any of RunAudios, and is
\* then processed, again and again.
\* A text one character longer than the prompt tail.
LongText == [i \in 1..(PromptTailChars + 1) |-> IF i = 1 THEN "h" ELSE "t"]

\* Silence; speech inside the overlap only; inside and past it; past it only;
\* long speech past it.
RunAudios ==
    { Silence, Audio(<<1>>, "en"), Audio(<<1, 3>>, "en"), Audio(<<3>>, "en"),
      [segments |-> << [start |-> OverlapSeconds + 1, end |-> OverlapSeconds + 9,
                        text |-> LongText] >>,
       language |-> "en", language_probability |-> 99] }

RunUpload ==
    /\ Quiet
    /\ \E upload_id \in uploading, total_s \in RecordingSeconds :
          LET n == Len(make_chunks_with_overlap(total_s * 1000, ChunkMinutes, OverlapSeconds))
          IN  /\ n > 0
              /\ \E content \in [1..n -> RunAudios] :
                    upload_audio(upload_id, total_s, content, TRUE, 0, TRUE)

RunInit ==
    /\ seg = Idle
    /\ mrg = Idle
    /\ blob_service_client = TRUE
    /\ SysInit
    /\ whisper_model = ModelAtStartup

RunNext ==
    \/ (FirstUploadBegin /\ UNCHANGED <<seg, mrg, other>>)
    \/ (RunUpload /\ UNCHANGED <<seg, mrg, other>>)
    \/ (ProcessBegin /\ UNCHANGED <<seg, mrg, other>>)
    \/ (ProcessChunk /\ UNCHANGED <<seg, mrg, other>>)
    \/ (ProcessStore /\ UNCHANGED <<seg, mrg, other>>)
    \/ (ProcessExcept /\ UNCHANGED <<seg, mrg, other>>)

RunSpec == RunInit /\ [][RunNext]_vars

\* The chunk audios drawn for the merge: every segment list, a second language
\* on the short ones.
MergeAudios ==
    { o \in EngineOutputs : o.language = "en" \/ Len(o.segments) <= 1 }
MergeOverlapSeconds == {0, OverlapSeconds}
MergeTailChars == {2, PromptTailChars}

MergeInit ==
    /\ \E n \in 0..MaxMergeChunks :
         \E paths \in [1..n -> MergeAudios], os \in MergeOverlapSeconds,
            tc \in MergeTailChars :
            mrg = MergeEntry(paths, os, tc)
    /\ seg = Idle
    /\ blob_service_client = FALSE
    /\ SysInit
    /\ whisper_model = init_whisper_model(ModelAtImport, TRUE)

\* An iteration calls transcribe_chunk_file, which gets its model from
\* init_whisper_model().
MergeLoop ==
    /\ mrg.pc = "loop"
    /\ mrg' = MergeIterate(mrg)
    /\ whisper_model' = IF mrg.idx < Len(mrg.chunk_paths)
                        THEN transcribe_model(whisper_model, TRUE)
                        ELSE whisper_model
    /\ UNCHANGED <<seg, stores>>

MergeNext == MergeLoop

\* transcribe_audio_chunks from the entry of its for loop: model =
\* init_whisper_model() has returned.
MergeSpec == MergeInit /\ [][MergeNext]_vars

\* transcribe_audio_chunks from its first statement, in a process that has
\* not loaded the model, next to direct calls of init_whisper_model and
\* transcribe_chunk_file; the construction of the model can raise.
ModelChunks == 2

ModelInit ==
    /\ \E n \in 0..ModelChunks :
         \E paths \in [1..n -> MergeAudios], os \in MergeOverlapSeconds,
            tc \in MergeTailChars :
            mrg = [MergeEntry(paths, os, tc) EXCEPT !.pc = "init"]
    /\ seg = Idle
    /\ blob_service_client = FALSE
    /\ SysInit
    /\ whisper_model = ModelAtImport

\* A call of init_whisper_model from elsewhere, as lifespan makes.
InitWhisperModel ==
    /\ \E ok \in BOOLEAN : whisper_model' = init_whisper_model(whisper_model, ok)
    /\ UNCHANGED <<seg, mrg, stores>>

\* A call of transcribe_chunk_file from elsewhere, as process_upload makes:
\* model = init_whisper_model(), then model.transcribe.
TranscribeChunkFile ==
    /\ \E ok \in BOOLEAN : whisper_model' = transcribe_model(whisper_model, ok)
    /\ UNCHANGED <<seg, mrg, stores>>

\* transcribe_audio_chunks' first statement, model = init_whisper_model():
\* an exception of the constructor leaves the function.
MergeLoadModel ==
    /\ mrg.pc = "init"
    /\ \E ok \in BOOLEAN :
          /\ whisper_model' = init_whisper_model(whisper_model, ok)
          /\ mrg' = [mrg EXCEPT !.pc = IF whisper_model'.last # 0 THEN "loop" ELSE "raised"]
    /\ UNCHANGED <<seg, stores>>

ModelNext ==
    \/ InitWhisperModel
    \/ TranscribeChunkFile
    \/ MergeLoadModel
    \/ MergeLoop

ModelSpec == ModelInit /\ [][ModelNext]_vars

\* The merge run on the chunks the segmenter cut: a recording is cut with one
\* minute windows, the engine reports for each chunk segments ordered by start
\* and inside [0, chunk duration], and transcribe_audio_chunks gets the
\* segmenter's overlap_seconds.
RECURSIVE SegFinal(_)
\* The locals of make_chunks_with_overlap at its return.
SegFinal(s) == IF s.pc = "return" THEN s ELSE SegFinal(SegIterate(s))

SeamDurations == {60000, 100000, 120000}

\* Local starts (seconds) around the overlap and at both ends of a chunk.
SeamStarts(duration_sec, overlap_seconds) ==
    { t \in {0, overlap_seconds - 1, overlap_seconds, overlap_seconds + 1,
             duration_sec - 1, duration_sec} : 0 <= t /\ t <= duration_sec }

\* What the engine can report for a chunk of that duration.
SeamAudios(duration_sec, overlap_seconds) ==
    LET starts == SeamStarts(duration_sec, overlap_seconds)
        lists == { g \in UNION { [1..n -> starts] : n \in 0..MaxSegmentsPerChunk } :
                     \A i \in 1..(Len(g) - 1) : g[i] < g[i + 1] }
    IN  { [segments |-> [i \in 1..Len(g) |->
                           [start |-> g[i], end |-> Min(g[i] + 1, duration_sec),
                            text |-> <<"x">>]],
           language |-> "en", language_probability |-> 99] : g \in lists }

SeamInit ==
    /\ \E total_ms \in SeamDurations, os \in MergeOverlapSeconds :
          LET s == SegFinal(SegEntry(total_ms, 1, os))
          IN  /\ seg = s
              /\ \E paths \in [1..Len(s.chunks) ->
                                UNION { SeamAudios(ChunkLen(s.chunks[i]) \div 1000, os) :
                                          i \in 1..Len(s.chunks) }] :
                    /\ \A i \in 1..Len(s.chunks) :
                          paths[i] \in SeamAudios(ChunkLen(s.chunks[i]) \div 1000, os)
                    /\ mrg = MergeEntry(paths, os, PromptTailChars)
    /\ blob_service_client = FALSE
    /\ SysInit
    /\ whisper_model = init_whisper_model(ModelAtImport, TRUE)

SeamSpec == SeamInit /\ [][MergeNext]_vars

SegInit ==
    /\ \E total_ms \in SegDurations, cm \in SegChunkMinutes, os \in SegOverlapSeconds :
          /\ ChunkMs(cm) > OverlapMs(os)
          /\ seg = SegEntry(total_ms, cm, os)
    /\ mrg = Idle
    /\ blob_service_client = FALSE
    /\ SysInit
    /\ whisper_model = ModelAtImport

SegLoop ==
    /\ seg.pc = "loop"
    /\ seg' = SegIterate(seg)
    /\ UNCHANGED <<mrg, sysvars>>

SegNext == SegLoop

SegSpec == SegInit /\ [][SegNext]_vars

\* The call keeps running: the loop is straight-line code that nothing blocks.
SegLiveSpec == SegInit /\ [][SegNext]_vars /\ WF_vars(SegLoop)

\* make_chunks_with_overlap called with parameters outside
\* window_length > overlap_length >= 0, window_length > 0, on a recording that
\* is not empty.  The loop may then
\* never end: it is followed for MaxInvalidChunks iterations.
MaxInvalidChunks == 4

InvalidChunkMinutes == {-1, 0, 1, ChunkMinutes}
InvalidOverlapSeconds == {-OverlapSeconds, 0, OverlapSeconds, 60, 61}

InvalidParameters(chunk_minutes, overlap_seconds) ==
    ~(/\ ChunkMs(chunk_minutes) > OverlapMs(overlap_seconds)
      /\ OverlapMs(overlap_seconds) >= 0
      /\ ChunkMs(chunk_minutes) > 0)

SegInvalidInit ==
    /\ \E total_ms \in SegDurations, cm \in InvalidChunkMinutes,
          os \in InvalidOverlapSeconds :
          /\ total_ms > 0
          /\ InvalidParameters(cm, os)
          /\ seg = SegEntry(total_ms, cm, os)
    /\ mrg = Idle
    /\ blob_service_client = FALSE
    /\ SysInit
    /\ whisper_model = ModelAtImport

SegInvalidLoop ==
    /\ seg.pc = "loop"
    /\ Len(seg.chunks) < MaxInvalidChunks
    /\ seg' = SegIterate(seg)
    /\ UNCHANGED <<mrg, sysvars>>

SegInvalidNext == SegInvalidLoop

SegInvalidSpec == SegInvalidInit /\ [][SegInvalidNext]_vars

(***************************************************************************)
(* Properties                                                              *)
(***************************************************************************)

\* The model's whole-second reading of start_sec is exact: every chunk starts
\* on a whole second.
SegStartsWhole ==
    \A i \in 1..Len(seg.chunks) : seg.chunks[i].from_ms % 1000 = 0

\* Rows of transcripts for the same upload and chunk are equal, so the order
\* ORDER BY chunk_index leaves open does not show in any result.
TranscriptRowsAgree ==
    \A u \in UploadIds : \A i, j \in 1..Len(transcripts[u]) :
       transcripts[u][i].chunk_index = transcripts[u][j].chunk_index
          => transcripts[u][i] = transcripts[u][j]

\* The instants at which coverage of [0, D) is probed: both ends of the
\* recording and both sides of every chunk boundary.
CoverageProbes(chunks, total_ms) ==
    { t \in ({0, total_ms - 1}
             \cup UNION { { chunks[i].from_ms - 1, chunks[i].from_ms,
                            chunks[i].to_ms - 1, chunks[i].to_ms } : i \in 1..Len(chunks) }) :
        0 <= t /\ t < total_ms }

\* C1 (SegSpec): for every duration D > 0 and window_length > overlap_length >= 0,
\* the chunks returned by make_chunks_with_overlap start at offset 0, their
\* ranges [start, start + duration) cover [0, D) without a gap, and each chunk
\* i > 0 starts at min(start[i-1] + window_length, D) - overlap_length, that is
\* exactly overlap_length before the end of chunk i-1.
C1_SegmentationCoverage ==
    (seg.pc = "return" /\ seg.total_ms > 0) =>
        LET c == seg.chunks
            n == Len(c)
            D == seg.total_ms
            W == seg.chunk_minutes * 60000
            O == seg.overlap_seconds * 1000
        IN  /\ n >= 1
            /\ c[1].from_ms = 0
            /\ c[1].start_sec = 0
            /\ \A i \in 1..n : c[i].start_sec * 1000 = c[i].from_ms
            /\ \A i \in 1..n : ChunkLen(c[i]) > 0
            /\ \A i \in 2..n : /\ c[i].from_ms = Min(c[i - 1].from_ms + W, D) - O
                               /\ c[i].from_ms = c[i - 1].from_ms + ChunkLen(c[i - 1]) - O
                               /\ c[i].from_ms <= c[i - 1].from_ms + ChunkLen(c[i - 1])
            /\ c[n].from_ms + ChunkLen(c[n]) = D
            /\ \A t \in CoverageProbes(c, D) :
                  \E i \in 1..n : c[i].from_ms <= t /\ t < c[i].from_ms + ChunkLen(c[i])

\* A call that returned at least three chunks with a real overlap and a last
\* chunk shorter than the window.
C1_Witness ==
    /\ seg.pc = "return"
    /\ seg.overlap_seconds > 0
    /\ Len(seg.chunks) >= 3
    /\ ChunkLen(seg.chunks[Len(seg.chunks)]) < seg.chunk_minutes * 60000

\* The segments of chunk idx a reconciler must keep: all of chunk 0, and of a
\* later chunk those with local_start >= overlap_length.
MustKeep(idx, segments, overlap_seconds) ==
    SelectSeq(segments, LAMBDA sg : idx = 0 \/ sg.start >= overlap_seconds)

RECURSIVE MustKeepAll(_, _, _)
\* The kept segments of chunks from..Len(audios), chunk after chunk, each
\* with its chunk index.
MustKeepAll(audios, from, overlap_seconds) ==
    IF from > Len(audios) THEN <<>>
    ELSE LET k == MustKeep(from - 1, audios[from].segments, overlap_seconds)
         IN  [i \in 1..Len(k) |-> [chunk_index |-> from - 1, start |-> k[i].start,
                                   end |-> k[i].end, text |-> k[i].text]]
             \o MustKeepAll(audios, from + 1, overlap_seconds)

\* C2 (MergeSpec): in the merged output of transcribe_audio_chunks every
\* segment of chunk 0 is kept, a segment of chunk i > 0 is kept if and only if
\* its local_start >= overlap_length (equal is kept, smaller is absent), and the
\* kept segments come in chunk order and, within a chunk, in their original order.
C2_OverlapTrimming ==
    mrg.pc = "return" =>
        /\ [i \in 1..Len(mrg.all_segments) |->
              [chunk_index |-> mrg.all_segments[i].chunk_index,
               start |-> mrg.all_segments[i].start,
               end |-> mrg.all_segments[i].end,
               text |-> mrg.all_segments[i].text]]
           = MustKeepAll(mrg.chunk_paths, 1, mrg.overlap_seconds)
        /\ \A c \in 1..Len(mrg.chunk_paths) :
              \A j \in 1..Len(mrg.chunk_paths[c].segments) :
                 LET sg == mrg.chunk_paths[c].segments[j]
                 IN  (\E i \in 1..Len(mrg.all_segments) :
                         /\ mrg.all_segments[i].chunk_index = c - 1
                         /\ mrg.all_segments[i].start = sg.start
                         /\ mrg.all_segments[i].text = sg.text)
                     <=> (c = 1 \/ sg.start >= mrg.overlap_seconds)

\* A merge that returned with a second chunk holding one segment inside the
\* overlap (dropped) and one exactly at its end (kept).
C2_Witness ==
    /\ mrg.pc = "return"
    /\ mrg.overlap_seconds = OverlapSeconds
    /\ Len(mrg.chunk_paths) >= 2
    /\ \E j \in 1..Len(mrg.chunk_paths[2].segments) :
          mrg.chunk_paths[2].segments[j].start < mrg.overlap_seconds
    /\ \E j \in 1..Len(mrg.chunk_paths[2].segments) :
          mrg.chunk_paths[2].segments[j].start = mrg.overlap_seconds
    /\ \E i \in 1..Len(mrg.all_segments) :
          /\ mrg.all_segments[i].chunk_index = 1
          /\ mrg.all_segments[i].start = mrg.overlap_seconds

\* The audio of every chunk of an upload, in chunk order (<<>> for a chunk
\* whose blob is missing).
UploadAudios(upload_id) ==
    LET rows == SelectChunks(upload_id)
    IN  [i \in 1..Len(rows) |->
           IF rows[i].blob_path \in DOMAIN blobs THEN blobs[rows[i].blob_path] ELSE Silence]

\* The full_text the reconciler forms for an upload: the join of the kept
\* (overlap-trimmed) segments' texts in chunk-then-local order.
TrimmedFullText(upload_id) ==
    LET k == MustKeepAll(UploadAudios(upload_id), 1, OverlapSeconds)
    IN  JoinText([i \in 1..Len(k) |-> k[i].text])

\* C3 (Spec): the full_text of the Transcript returned by process_upload and by
\* get_transcript is exactly the join of the kept (overlap-trimmed) segments'
\* texts; a chunk's own pre-trim text is never used, so no text of a segment of
\* chunk i > 0 with local_start < overlap_length appears in it.
C3_FullTextIsTrimmedJoin ==
    (/\ response.op \in {"process", "transcript"}
     /\ response.code = 200
     /\ response.status = "completed")
        => response.result.full_transcript = TrimmedFullText(response.upload_id)

\* The start offset of chunk idx of an upload, as recorded at ingest.
StartOffset(upload_id, idx) ==
    (CHOOSE r \in audio_chunks : r.upload_id = upload_id /\ r.chunk_index = idx).start_time_sec

\* The stored window results of an upload flattened the way get_transcript
\* flattens them, each segment with the chunk it belongs to.
StoredSegments(upload_id) ==
    LET rows == SelectTranscripts(transcripts, upload_id)
    IN  JoinText([i \in 1..Len(rows) |->
                    [j \in 1..Len(rows[i].segments) |->
                       [chunk_index |-> rows[i].chunk_index,
                        local_start |-> rows[i].segments[j].start,
                        local_end |-> rows[i].segments[j].end]]])

\* C4 (Spec): every segment of the Transcript get_transcript returns carries
\* global timestamps: start = start_offset[chunk] + local_start and
\* end = start_offset[chunk] + local_end, for every chunk index.
C4_GlobalTimestamps ==
    (/\ response.op = "transcript"
     /\ response.code = 200
     /\ response.status = "completed")
        => LET u == response.upload_id
               out == response.result.segments
               src == StoredSegments(u)
           IN  /\ Len(out) = Len(src)
               /\ \A i \in 1..Len(out) :
                     /\ out[i].start = StartOffset(u, src[i].chunk_index) + src[i].local_start
                     /\ out[i].end = StartOffset(u, src[i].chunk_index) + src[i].local_end

\* C5 (Spec): in every reachable state in which an upload's status is
\* completed, a persisted transcript row exists for every chunk index
\* 0..total_chunks-1 of it; completed is never visible before the rows are.
C5_CompletedHasAllRows ==
    \A u \in DOMAIN audio_uploads :
       audio_uploads[u].status = "completed" =>
          \A idx \in 0..(audio_uploads[u].total_chunks - 1) :
             \E i \in 1..Len(transcripts[u]) : transcripts[u][i].chunk_index = idx

\* An upload of three chunks is completed.
C5_Witness ==
    \E u \in DOMAIN audio_uploads :
       /\ audio_uploads[u].status = "completed"
       /\ audio_uploads[u].total_chunks >= 3
       /\ Len(transcripts[u]) >= 3

\* C6 (Spec): processing the same recording twice in sequence with a
\* deterministic engine yields identical Transcripts: the ones the calls return
\* are equal, and so are the ones get_transcript serves after each call.
C6_ReprocessIdempotent ==
    \A u \in UploadIds :
       /\ Cardinality(history[u].returned) <= 1
       /\ Cardinality(history[u].stored) <= 1

\* C7 (Spec): if fetching or transcribing chunk k fails during a run, no chunk
\* with a larger index is transcribed in that run, the run reports failure and
\* the upload's status becomes failed, never completed.
C7_AbortOnFirstFailure ==
    /\ run.failed_index # -1 =>
          /\ run.pc = "except"
          /\ \A i \in 1..Len(run.transcribed) : run.transcribed[i] <= run.failed_index
    /\ (response.op = "process" /\ response.code = 200) =>
          /\ Len(response.transcribed) = audio_uploads[response.upload_id].total_chunks
          /\ \A i \in 1..Len(response.transcribed) : response.transcribed[i] = i - 1
    /\ (/\ response.op = "process"
        /\ response.code = 500
        /\ response.error \in {"download", "transcribe"}) =>
          /\ \A i \in 1..Len(response.transcribed) :
                response.transcribed[i] <= response.failed_index
          /\ audio_uploads[response.upload_id].status = "failed"

\* A run failed at the second chunk of three after transcribing the first.
C7_Witness ==
    /\ response.op = "process"
    /\ response.code = 500
    /\ response.error = "transcribe"
    /\ response.failed_index = 1
    /\ response.transcribed = <<0, 1>>
    /\ audio_uploads[response.upload_id].total_chunks = 3
    /\ audio_uploads[response.upload_id].status = "failed"

\* C8 (Spec): if storing the transcript rows or the completed status fails
\* during process_upload, the upload's status ends as failed.
C8_StoreFailureLeadsToFailed ==
    (/\ response.op = "process"
     /\ response.code = 500
     /\ response.error \in {"db_error", "client_error"})
        => audio_uploads[response.upload_id].status = "failed"

\* The edges of the status state machine; re-entry into processing on retry.
StatusEdges ==
    { <<"pending", "chunked">>, <<"chunked", "processing">>,
      <<"processing", "completed">>, <<"processing", "failed">>,
      <<"failed", "processing">>, <<"completed", "processing">> }

\* C9 (Spec): every change of an upload's status follows an edge of
\* pending -> chunked -> processing -> {completed | failed} (plus re-entry into
\* processing on retry), and the status is processing from the moment the
\* per-chunk loop begins until the run ends.
C9_StatusStateMachine ==
    [][ /\ \A u \in DOMAIN audio_uploads :
             audio_uploads'[u].status # audio_uploads[u].status =>
                <<audio_uploads[u].status, audio_uploads'[u].status>> \in StatusEdges
        /\ run'.pc \in {"loop", "store"} =>
             audio_uploads'[run'.upload_id].status = "processing" ]_vars

\* C10 (Spec): the status failed is reached only from processing: no step sets
\* an upload to failed directly from chunked or from completed.
C10_FailedOnlyFromProcessing ==
    [][ \A u \in DOMAIN audio_uploads :
           (audio_uploads'[u].status = "failed" /\ audio_uploads[u].status # "failed")
              => audio_uploads[u].status = "processing" ]_vars

\* C11 (Spec): once an upload's status is completed, no request other than a
\* new process_upload changes it: ingest of other recordings, get_status,
\* get_transcript, list_uploads and get_upload_details leave its row and its
\* stored transcript as they are.
C11_CompletedFrame ==
    [][ (run' = run /\ process_calls' = process_calls) =>
           \A u \in DOMAIN audio_uploads :
              audio_uploads[u].status = "completed" =>
                 /\ u \in DOMAIN audio_uploads'
                 /\ audio_uploads'[u] = audio_uploads[u]
                 /\ transcripts'[u] = transcripts[u]
                 /\ { r \in audio_chunks' : r.upload_id = u }
                      = { r \in audio_chunks : r.upload_id = u } ]_vars

\* Another recording was ingested while an upload was completed.
C11_Witness ==
    /\ response.op = "upload"
    /\ response.code = 200
    /\ \E u \in DOMAIN audio_uploads :
          /\ u # response.upload_id
          /\ audio_uploads[u].status = "completed"
          /\ Len(transcripts[u]) >= 3

\* A process_upload invocation inside its chunk loop or its store.
InFlight(r) == r.pc \in {"loop", "store"}

\* C12 (RaceSpec): two process_upload invocations for the same upload never
\* interleave their chunk loops or their writes of status and transcript: a
\* second one arriving while the first is in flight is rejected or runs only
\* after the first has finished.
C12_MutualExclusion ==
    ~(InFlight(run) /\ InFlight(other) /\ run.upload_id = other.upload_id)

\* The transcripts rows one successful run stores for a freshly ingested
\* upload with these chunks and blobs.
FreshRows(upload_id) ==
    LET ch == SelectChunks(upload_id)
    IN  [i \in 1..Len(ch) |->
           LET r == transcribe_chunk_file(blobs[ch[i].blob_path], <<>>)
           IN  TranscriptRow(upload_id,
                             [chunk_index |-> ch[i].chunk_index, text |-> r.chunk_text,
                              language |-> r.language,
                              language_probability |-> r.language_probability,
                              segments |-> r.segments])]

\* The transcript get_transcript serves after that single run.
FreshTranscript(upload_id) ==
    TranscriptResult(InsertTranscripts([v \in UploadIds |-> <<>>], upload_id,
                                       FreshRows(upload_id)),
                     upload_id)

\* C13 (Spec): an upload in status failed or chunked can be processed again
\* from its first chunk, and a run on it in which no step fails ends in
\* completed with a stored transcript equal to the one a single successful run
\* on the freshly ingested upload produces.
C13_SafeRetry ==
    [][ \A u \in DOMAIN audio_uploads :
           (/\ audio_uploads[u].status \in {"failed", "chunked"}
            /\ audio_uploads'[u].status = "completed")
              => TranscriptResult(transcripts', u) = FreshTranscript(u) ]_vars

\* C14 (Spec): get_transcript returns transcript content (full text, segments,
\* languages) only when the upload's status is completed; for any other status
\* it returns a not-ready answer that carries the status and no transcript
\* content; and it changes no state.
C14_TranscriptOnlyWhenCompleted ==
    [][ (response'.op = "transcript" /\ response' # response) =>
           /\ UNCHANGED <<blob_service_client, blobs, audio_uploads, audio_chunks,
                          transcripts, next_upload_id, run, other, process_calls, history>>
           /\ LET u == response'.upload_id
              IN  IF u \notin DOMAIN audio_uploads
                  THEN /\ response'.code = 404
                       /\ DOMAIN response' = {"op", "code", "upload_id"}
                  ELSE IF audio_uploads[u].status = "completed"
                  THEN /\ response'.code = 200
                       /\ response'.status = "completed"
                       /\ "result" \in DOMAIN response'
                  ELSE /\ response'.code = 200
                       /\ response'.status = audio_uploads[u].status
                       /\ DOMAIN response' = {"op", "code", "upload_id", "status"} ]_vars

\* get_transcript answered not-ready for a failed upload that has rows in
\* transcripts.
C14_Witness ==
    /\ response.op = "transcript"
    /\ response.code = 200
    /\ response.status = "failed"
    /\ "result" \notin DOMAIN response
    /\ Len(transcripts[response.upload_id]) > 0

\* The call returned exactly one chunk, starting at 0 and as long as the
\* recording.
OneWholeChunk ==
    /\ Len(seg.chunks) = 1
    /\ seg.chunks[1].from_ms = 0
    /\ seg.chunks[1].start_sec = 0
    /\ ChunkLen(seg.chunks[1]) = seg.total_ms

\* C15 (SegSpec), as stated: for every duration D with 0 <= D <= window_length
\* and any overlap_length < window_length, make_chunks_with_overlap returns
\* exactly one chunk, with start 0 and duration D.
C15_SingleWindow ==
    (/\ seg.pc = "return"
     /\ 0 <= seg.total_ms
     /\ seg.total_ms <= ChunkMs(seg.chunk_minutes)) => OneWholeChunk

\* C15 (SegSpec), amended: for every duration D with 0 < D <= window_length and
\* any overlap_length < window_length, make_chunks_with_overlap returns exactly
\* one chunk, with start 0 and duration D; for D = 0 it returns no chunk.
C15_SingleWindowNonEmpty ==
    /\ (/\ seg.pc = "return"
        /\ 0 < seg.total_ms
        /\ seg.total_ms <= ChunkMs(seg.chunk_minutes)) => OneWholeChunk
    /\ (seg.pc = "return" /\ seg.total_ms = 0) => seg.chunks = <<>>

\* A 4 minute recording cut with 5 minute windows came back as one chunk.
C15_Witness ==
    /\ seg.pc = "return"
    /\ seg.total_ms = 4 * 60000
    /\ seg.chunk_minutes = ChunkMinutes
    /\ seg.overlap_seconds = OverlapSeconds
    /\ Len(seg.chunks) = 1

\* C16 (SegInvalidSpec): make_chunks_with_overlap called with
\* window_length <= overlap_length, window_length <= 0 or overlap_length < 0
\* fails with an InvalidParameters error and produces no chunk: it neither
\* appends a chunk nor returns.
C16_InvalidParametersRejected ==
    InvalidParameters(seg.chunk_minutes, seg.overlap_seconds) =>
        /\ seg.chunks = <<>>
        /\ seg.pc # "return"

\* C17 (Spec): whenever ingest leaves an upload in status chunked, every chunk
\* row recorded for it points at a blob path under which that chunk's audio
\* was stored in blob storage.
C17_ChunkedImpliesStored ==
    \A u \in DOMAIN audio_uploads :
       audio_uploads[u].status = "chunked" =>
          \A r \in audio_chunks :
             r.upload_id = u => r.blob_path \in DOMAIN blobs

\* The global start of a merged segment: the start offset of its chunk, as
\* the segmenter returned it, plus its local start.
GlobalStart(sg) == seg.chunks[sg.chunk_index + 1].start_sec + sg.start

\* C18 (SeamSpec): provided each chunk's segments are ordered by local_start
\* and lie within [0, chunk duration], the merged segments that
\* transcribe_audio_chunks returns for chunks cut by the segmenter are
\* non-decreasing in global start (start_offset[chunk] + local_start), across
\* chunk seams as well as within chunks.
C18_MergedTimeOrdered ==
    mrg.pc = "return" =>
        \A i, j \in 1..Len(mrg.all_segments) :
           i < j => GlobalStart(mrg.all_segments[i]) <= GlobalStart(mrg.all_segments[j])

\* A merge returned in which a segment at the very end of one chunk is followed
\* by a segment of the next chunk at the end of the overlap, which had a
\* segment inside the overlap dropped.
C18_Witness ==
    /\ mrg.pc = "return"
    /\ mrg.overlap_seconds = OverlapSeconds
    /\ Len(seg.chunks) >= 3
    /\ ChunkLen(seg.chunks[Len(seg.chunks)]) < ChunkMs(seg.chunk_minutes)
    /\ \E j \in 1..Len(mrg.chunk_paths[2].segments) :
          mrg.chunk_paths[2].segments[j].start < mrg.overlap_seconds
    /\ \E i \in 1..(Len(mrg.all_segments) - 1) :
          /\ mrg.all_segments[i].chunk_index = 0
          /\ mrg.all_segments[i + 1].chunk_index = 1
          /\ GlobalStart(mrg.all_segments[i]) = GlobalStart(mrg.all_segments[i + 1])

\* The languages list has exactly the values of detected, each once.
EachOnce(languages, detected) ==
    /\ DOMAIN languages = detected
    /\ \A l \in detected : languages[l] = 1

\* C19 (Spec): the languages process_upload returns contain each language
\* detected for a chunk of the run exactly once and no other value, and the
\* languages get_transcript returns contain each language of the upload's
\* transcripts rows exactly once and no other value, however many chunks have
\* the same language.
C19_LanguagesSetSemantics ==
    [][ /\ (response'.op = "process" /\ response'.code = 200 /\ response' # response)
           => EachOnce(response'.result.languages,
                       { run.results[i].language : i \in 1..Len(run.results) })
        /\ (response'.op = "transcript" /\ response' # response
              /\ "result" \in DOMAIN response')
           => EachOnce(response'.result.languages,
                       { transcripts[response'.upload_id][i].language :
                           i \in 1..Len(transcripts[response'.upload_id]) }) ]_vars

\* get_transcript answered for an upload whose rows carry two languages, one
\* of them on more than one row.
C19_Witness ==
    /\ response.op = "transcript"
    /\ "result" \in DOMAIN response
    /\ Cardinality(DOMAIN response.result.languages) = 2
    /\ LET rows == transcripts[response.upload_id]
       IN  \E i, j \in 1..Len(rows) : i # j /\ rows[i].language = rows[j].language

\* The call of the example: 12 minutes cut into 5 minute windows with 30 s
\* of overlap.
TwelveMinuteCall ==
    /\ seg.pc = "return"
    /\ seg.total_ms = 12 * 60000
    /\ seg.chunk_minutes = ChunkMinutes
    /\ seg.overlap_seconds = OverlapSeconds

\* C20 (SegSpec): for a 12 minute recording, chunk_minutes = 5 and
\* overlap_seconds = 30, make_chunks_with_overlap returns exactly three chunks,
\* with starts 0 s, 270 s and 540 s and durations 300 s, 300 s and 180 s.
C20_TwelveMinuteExample ==
    TwelveMinuteCall =>
        /\ Len(seg.chunks) = 3
        /\ [i \in 1..3 |-> seg.chunks[i].start_sec] = <<0, 270, 540>>
        /\ [i \in 1..3 |-> seg.chunks[i].from_ms] = <<0, 270000, 540000>>
        /\ [i \in 1..3 |-> ChunkLen(seg.chunks[i])] = <<300000, 300000, 180000>>

\* The call of the example returned, its last chunk ending with the recording.
C20_Witness ==
    /\ TwelveMinuteCall
    /\ Len(seg.chunks) > 0
    /\ seg.chunks[Len(seg.chunks)].to_ms = seg.total_ms

\* The text of a sequence of segments.
SegmentsText(segments) == JoinText([i \in 1..Len(segments) |-> segments[i].text])

\* The hint the carryover policy derives from a chunk's result: the tail of its
\* overlap-trimmed text if that is not empty, else the tail of its raw text.
HintPolicy(result) ==
    LET merged == SegmentsText(MustKeep(result.chunk_index, result.segments, OverlapSeconds))
    IN  IF merged # <<>> THEN TailChars(merged, PromptTailChars)
        ELSE TailChars(result.text, PromptTailChars)

\* A step of the run that hands a chunk after the first to the engine.
TranscribesLaterChunk ==
    /\ Len(run'.prompts) = Len(run.prompts) + 1
    /\ Len(run.results) >= 1

\* C21 (RunSpec): in a process run the hint passed to the transcription of
\* chunk i+1 is the last 300 characters of chunk i's overlap-trimmed text when
\* that text is not empty, and otherwise the last 300 characters of chunk i's
\* raw text.
C21_HintPolicy ==
    [][ TranscribesLaterChunk =>
           run'.prompts[Len(run'.prompts)] = HintPolicy(run.results[Len(run.results)]) ]_vars

RECURSIVE CarriedHint(_)
\* The tail of the text of the latest result that has text; empty if none has.
CarriedHint(results) ==
    IF results = <<>> THEN <<>>
    ELSE LET last == results[Len(results)]
         IN  IF last.text # <<>> THEN TailChars(last.text, PromptTailChars)
             ELSE CarriedHint(SubSeq(results, 1, Len(results) - 1))

\* C22 (RunSpec): within one process run the chunks are handed to the engine
\* one at a time in strictly increasing chunk_index order (0, 1, 2, ...), chunk
\* i+1 is handed over only once the results of all chunks up to i have been
\* obtained, and the hint it gets is determined by those results alone.
C22_StrictlySequential ==
    [][ (run'.upload_id = run.upload_id /\ run'.transcribed # run.transcribed) =>
           /\ run'.transcribed = Append(run.transcribed, Len(run.transcribed))
           /\ Len(run.results) = Len(run.transcribed)
           /\ \A i \in 1..Len(run.results) : run.results[i].chunk_index = i - 1
           /\ run'.prompts = Append(run.prompts, CarriedHint(run.results)) ]_vars

\* A run handed all three chunks to the engine, the last one with a hint.
C22_Witness ==
    /\ run.pc = "store"
    /\ run.transcribed = <<0, 1, 2>>
    /\ Len(run.results) = 3
    /\ run.prompts[3] # <<>>

\* The results obtained so far include one with zero segments.
HadSilentChunk(r) == \E i \in 1..Len(r.results) : r.results[i].segments = <<>>

\* A chunk with zero segments was transcribed in this step without a fault.
SilentChunkStep ==
    /\ run.pc = "loop"
    /\ Len(run'.results) = Len(run.results) + 1
    /\ run'.results[Len(run'.results)].segments = <<>>

\* The silent chunk by itself: its result carries no text
\* and no segment, the step does not fail the run, and the transcript a
\* completed run returns and stores is the join of the chunks' texts, to which
\* the silent chunk adds nothing.
SilentChunkHarmless ==
    [][ /\ SilentChunkStep =>
             /\ run'.results[Len(run'.results)].text = <<>>
             /\ run'.pc \in {"loop", "store"}
             /\ run'.error = "none"
        /\ (run.pc = "store" /\ run'.pc = "idle" /\ response'.code = 200) =>
             /\ response'.result.full_transcript =
                  JoinText([i \in 1..Len(run.results) |->
                              SegmentsText(run.results[i].segments)])
             /\ \A i \in 1..Len(run.results) :
                   run.results[i].segments = <<>> =>
                      /\ transcripts'[run.upload_id][Len(transcripts'[run.upload_id])
                                                      - Len(run.results) + i].text = <<>>
                      /\ transcripts'[run.upload_id][Len(transcripts'[run.upload_id])
                                                      - Len(run.results) + i].segments = <<>> ]_vars

\* C23 (RunSpec): a chunk whose result has zero segments adds no text and no
\* segment to the transcript and does not make the run fail, and every later
\* chunk of the run is still transcribed, with the hint the carryover policy
\* derives from the chunk before it.
C23_SilentChunk ==
    [][ /\ SilentChunkStep =>
             /\ run'.results[Len(run'.results)].text = <<>>
             /\ run'.pc \in {"loop", "store"}
             /\ run'.error = "none"
        /\ (TranscribesLaterChunk /\ HadSilentChunk(run)) =>
             run'.prompts[Len(run'.prompts)] = HintPolicy(run.results[Len(run.results)]) ]_vars

\* What the engine reports for the chunk of a row: the text of its segments.
EngineText(row) == SegmentsText(blobs[row.blob_path].segments)

\* C24 (RunSpec): in every process run the first chunk is transcribed with no
\* hint, every hint passed to a later chunk has at most 300 characters, and
\* the hint is never put into the transcript: every result's text and segments,
\* every stored row and the returned full_transcript are exactly what the
\* engine reported for the chunks.
C24_BoundedAdvisoryHint ==
    /\ run.prompts # <<>> => run.prompts[1] = <<>>
    /\ \A i \in 1..Len(run.prompts) : Len(run.prompts[i]) <= 300
    /\ \A i \in 1..Len(run.results) :
          /\ run.results[i].segments = blobs[run.chunks[i].blob_path].segments
          /\ run.results[i].text = EngineText(run.chunks[i])
    /\ \A u \in UploadIds : \A i \in 1..Len(transcripts[u]) :
          LET row == transcripts[u][i]
              chunk == SelectChunks(u)[row.chunk_index + 1]
          IN  /\ row.segments = blobs[chunk.blob_path].segments
              /\ row.text = EngineText(chunk)
    /\ (response.op = "process" /\ response.code = 200) =>
          LET chunks == SelectChunks(response.upload_id)
          IN  /\ response.result.full_transcript =
                   JoinText([i \in 1..Len(chunks) |-> EngineText(chunks[i])])
              /\ response.prompts[1] = <<>>
              /\ \A i \in 1..Len(response.prompts) : Len(response.prompts[i]) <= 300

\* A run completed in which a chunk's text had more than 300 characters and
\* the next chunk got a hint of exactly 300.
C24_Witness ==
    /\ response.op = "process"
    /\ response.code = 200
    /\ \E i \in 2..Len(response.prompts) :
          /\ Len(response.prompts[i]) = 300
          /\ Len(EngineText(SelectChunks(response.upload_id)[i - 1])) > 300
    /\ Len(transcripts[response.upload_id]) > 0

\* C25 (SegSpec): of the chunks make_chunks_with_overlap returns, every one
\* except the last has duration exactly window_length, the last is the only
\* one whose end equals D, the loop stops at the first chunk whose end reaches
\* D (while it runs no chunk has reached D), and the start offsets are strictly
\* increasing.
C25_WindowSequenceShape ==
    LET c == seg.chunks
        n == Len(c)
        D == seg.total_ms
        W == seg.chunk_minutes * 60000
    IN  /\ seg.pc = "loop" =>
              \A i \in 1..n : c[i].to_ms < D /\ ChunkLen(c[i]) = W
        /\ seg.pc = "return" =>
              /\ \A i \in 1..(n - 1) : ChunkLen(c[i]) = W /\ c[i].to_ms < D
              /\ n >= 1 => (c[n].to_ms = D /\ ChunkLen(c[n]) <= W)
              /\ \A i \in 1..(n - 1) : /\ c[i].from_ms < c[i + 1].from_ms
                                        /\ c[i].start_sec < c[i + 1].start_sec

\* A call returned several chunks, the last one a whole window that ends
\* exactly at D.
C25_Witness ==
    /\ seg.pc = "return"
    /\ seg.overlap_seconds > 0
    /\ Len(seg.chunks) >= 2
    /\ ChunkLen(seg.chunks[Len(seg.chunks)]) = seg.chunk_minutes * 60000

\* C26 (SegLiveSpec): for every D >= 0 and window_length > overlap_length >= 0
\* the loop of make_chunks_with_overlap ends, and the number n of chunks it
\* produces is bounded: (n - 1) * (window_length - overlap_length) < D.
C26_SegmentationTerminates ==
    /\ <>(seg.pc = "return")
    /\ [](Len(seg.chunks) >= 1 =>
            (Len(seg.chunks) - 1)
               * (seg.chunk_minutes * 60000 - seg.overlap_seconds * 1000) < seg.total_ms)

\* A call returned after a hundred iterations or more, each advancing one
\* second.
C26_Witness ==
    /\ seg.pc = "return"
    /\ seg.chunk_minutes * 60000 - seg.overlap_seconds * 1000 = 1000
    /\ Len(seg.chunks) >= 100

\* The upload whose request ends in this step, 0 if none does.
FinishedUpload ==
    IF uploading' # uploading /\ uploading' \subseteq uploading
    THEN CHOOSE u \in uploading : u \notin uploading'
    ELSE 0

\* The upload handled in this step could not store the original file.
OriginalUploadFailed ==
    /\ FinishedUpload # 0
    /\ blob_service_client
    /\ OriginalBlobPath(FinishedUpload) \notin DOMAIN blobs'

\* C27 (Spec): if upload_blob of the original file fails during upload_audio
\* (and nothing else does), the request still cuts the recording, stores every
\* chunk blob and every chunk row, answers 200 and leaves the upload with
\* status chunked.
C27_OriginalUploadNonFatal ==
    [][ OriginalUploadFailed =>
           LET u == FinishedUpload
               rows == { r \in audio_chunks' : r.upload_id = u }
           IN  /\ response'.op = "upload" /\ response'.code = 200
               /\ u \in DOMAIN audio_uploads'
               /\ audio_uploads'[u].status = "chunked"
               /\ Cardinality(rows) = audio_uploads'[u].total_chunks
               /\ rows = ChunkRecords(u, make_chunks_with_overlap(
                                            Millis(audio_uploads'[u].duration_seconds),
                                            ChunkMinutes, OverlapSeconds))
               /\ \A r \in rows : r.blob_path \in DOMAIN blobs' ]_vars

\* An upload of three chunks was stored as chunked although its original file
\* is not in the container.
C27_Witness ==
    /\ response.op = "upload"
    /\ response.code = 200
    /\ blob_service_client
    /\ OriginalBlobPath(response.upload_id) \notin DOMAIN blobs
    /\ audio_uploads[response.upload_id].status = "chunked"
    /\ Cardinality({ r \in audio_chunks : r.upload_id = response.upload_id }) = 3

\* The step in which a process run ends in failure: the except handler has
\* run and the request answers 500.
RunEndsInFailure ==
    /\ run.pc = "except"
    /\ run'.pc = "idle"
    /\ response'.op = "process"
    /\ response'.code = 500

\* C28 (Spec): whenever a process run ends in failure, whatever step failed
\* (reading the upload and its chunks, download, transcription, or an INSERT
\* part-way through the store), the rows of transcripts are exactly what they
\* were before the run (a run writes nothing before its end).
C28_FailedRunLeavesTranscript ==
    [][ RunEndsInFailure => transcripts' = transcripts ]_vars

\* process_upload, with a blob client configured, answers in this step a
\* request for an upload id that has no row or no chunk rows.
AnswersMissingRecording ==
    /\ blob_service_client
    /\ response'.op = "process"
    /\ response' # response
    /\ \/ response'.upload_id \notin DOMAIN audio_uploads
       \/ SelectChunks(response'.upload_id) = <<>>

\* C29 (Spec): process_upload called with an upload id that does not exist,
\* or whose upload has no chunks, answers 404, changes no upload's status and
\* stores no transcripts row.
C29_ProcessMissingRecording ==
    [][ AnswersMissingRecording =>
           /\ response'.code = 404
           /\ audio_uploads' = audio_uploads
           /\ transcripts' = transcripts ]_vars

\* The chunk rows stored for an upload.
ChunkRowsOf(table, u) == { r \in table : r.upload_id = u }

\* C30 (Spec): after an upload_audio that succeeds the upload has status
\* chunked, its total_chunks is the number of its chunk rows, their indices are
\* exactly 0..total_chunks-1 and their start offsets and durations are those
\* of the chunks make_chunks_with_overlap returns for the recording; after an
\* upload_audio that fails, whether rejected at once or failing at the
\* database, neither an upload row nor a chunk row of it is visible.
C30_IngestAllOrNothing ==
    [][ ((response'.op = "upload" /\ response' # response) \/ FinishedUpload # 0) =>
           IF response'.code = 200
           THEN LET u == response'.upload_id
                    rows == ChunkRowsOf(audio_chunks', u)
                    n == audio_uploads'[u].total_chunks
                    chunks == make_chunks_with_overlap(
                                  Millis(audio_uploads'[u].duration_seconds),
                                  ChunkMinutes, OverlapSeconds)
                IN  /\ u = FinishedUpload
                    /\ u \in DOMAIN audio_uploads'
                    /\ audio_uploads'[u].status = "chunked"
                    /\ Cardinality(rows) = n
                    /\ response'.total_chunks = n
                    /\ { r.chunk_index : r \in rows } = 0..(n - 1)
                    /\ Len(chunks) = n
                    /\ \A r \in rows :
                          /\ r.start_time_sec * 1000 = chunks[r.chunk_index + 1].from_ms
                          /\ Millis(r.duration_sec) = ChunkLen(chunks[r.chunk_index + 1])
                    /\ \A v \in DOMAIN audio_uploads : audio_uploads'[v] = audio_uploads[v]
                    /\ audio_chunks' \ rows = audio_chunks
           ELSE /\ audio_uploads' = audio_uploads
                /\ audio_chunks' = audio_chunks
                /\ FinishedUpload # 0 =>
                      /\ FinishedUpload \notin DOMAIN audio_uploads'
                      /\ ChunkRowsOf(audio_chunks', FinishedUpload) = {} ]_vars

\* A second upload was stored with its three chunk rows after a first one
\* failed at the database: the first left its blobs but no row.
C30_Witness ==
    /\ response.op = "upload"
    /\ response.code = 200
    /\ response.upload_id = 2
    /\ DOMAIN audio_uploads = {2}
    /\ Cardinality(ChunkRowsOf(audio_chunks, 2)) = 3
    /\ ChunkRowsOf(audio_chunks, 1) = {}
    /\ ChunkBlobPath(1, 0) \in DOMAIN blobs

\* The positions up to i of the results that have text.
WithText(results, i) == { j \in 1..i : results[j].text # <<>> }

\* The last n characters of a text, or all of it if it is shorter.
LastChars(text, n) ==
    [k \in 1..Min(n, Len(text)) |-> text[Len(text) - Min(n, Len(text)) + k]]

\* C31 (RunSpec): in a process run the hint passed to chunk i+1 is the tail,
\* at most 300 characters, of the text of the most recent chunk with index
\* <= i whose text is not empty, and there is no hint if no such chunk exists;
\* a chunk without text leaves the carried hint as it was.
C31_HintPersistsAcrossEmpty ==
    /\ \A p \in 1..Len(run.prompts) :
          LET i == Min(p - 1, Len(run.results))
              w == WithText(run.results, i)
          IN  IF w = {} THEN run.prompts[p] = <<>>
              ELSE LET j == CHOOSE k \in w : \A m \in w : m <= k
                   IN  /\ run.prompts[p] = LastChars(run.results[j].text, 300)
                       /\ Len(run.prompts[p]) <= 300
    /\ \A p \in 1..(Len(run.prompts) - 1) :
          run.results[p].text = <<>> => run.prompts[p + 1] = run.prompts[p]
    /\ Len(run.results) >= 1 =>
          (run.results[Len(run.results)].text = <<>> =>
              run.prev_tail = run.prompts[Len(run.results)])

\* A run handed chunk 2 the hint chunk 1 had got from chunk 0, chunk 1 having
\* produced no text.
C31_Witness ==
    /\ run.pc = "store"
    /\ Len(run.results) = 3
    /\ run.results[1].text # <<>>
    /\ run.results[2].text = <<>>
    /\ run.prompts[3] = run.prompts[2]
    /\ run.prompts[3] = LastChars(run.results[1].text, 300)
    /\ run.prompts[3] # <<>>

\* The same persistence in transcribe_audio_chunks (MergeSpec): the prompt of
\* chunk p is taken from the most recent earlier chunk with text, from its
\* overlap-trimmed text if that is not empty and else from its raw text.
MergeHintPersists ==
    mrg.pc \in {"loop", "return"} =>
        \A p \in 1..Len(mrg.prompts) :
           LET w == { j \in 1..(p - 1) : SegmentsText(mrg.chunk_paths[j].segments) # <<>> }
           IN  IF w = {} THEN mrg.prompts[p] = <<>>
               ELSE LET j == CHOOSE k \in w : \A m \in w : m <= k
                        raw == SegmentsText(mrg.chunk_paths[j].segments)
                        merged == SegmentsText(MustKeep(j - 1, mrg.chunk_paths[j].segments,
                                                        mrg.overlap_seconds))
                    IN  mrg.prompts[p] =
                           LastChars(IF merged # <<>> THEN merged ELSE raw,
                                     mrg.prompt_tail_chars)

\* The process_upload invocations that hold their connection.
RunsInFlight ==
    (IF run.pc # "idle" THEN 1 ELSE 0) + (IF other.pc # "idle" THEN 1 ELSE 0)

\* C32 (PoolSpec): every handler of both services gives back to the pool every
\* connection it took, on every path, so the connections checked out are those
\* of the process_upload requests still running, and none once no request is
\* running.
C32_NoConnectionLeak ==
    /\ db_pool["audio"] = 0
    /\ db_pool["whisper"] = RunsInFlight

\* A handler other than health leaves checked out what was, plus the
\* connection of a process_upload it starts, minus that of one it ends.
GuardedHandlersRelease ==
    [][ response'.op # "health" =>
          /\ db_pool'["audio"] = db_pool["audio"]
          /\ db_pool'["whisper"] - RunsInFlight' = db_pool["whisper"] - RunsInFlight ]_vars

\* C33 (ModelSpec): across any sequence of init_whisper_model and
\* transcribe_chunk_file calls at most one WhisperModel object is constructed,
\* and once it exists every call returns or uses that same object.
C33_ModelLoadedOnce ==
    [][ /\ whisper_model'.constructed <= 1
        /\ whisper_model.model # 0 =>
              /\ whisper_model'.model = whisper_model.model
              /\ whisper_model'.constructed = whisper_model.constructed
              /\ whisper_model'.last = whisper_model.model
              /\ whisper_model'.used \in {whisper_model.used, whisper_model.model} ]_vars

\* transcribe_audio_chunks returned after two chunks or more in a process
\* that had not loaded the model: one object was constructed, and the latest
\* calls returned and used it.
C33_Witness ==
    /\ mrg.pc = "return"
    /\ mrg.idx >= 2
    /\ whisper_model.constructed = 1
    /\ whisper_model.model # 0
    /\ whisper_model.last = whisper_model.model
    /\ whisper_model.used = whisper_model.model

====
